---- MODULE Spec2Model ----
(***************************************************************************)
(* Verification model of the generation task orchestration of ai-studio:   *)
(* the browser-side API client (src/src/services/api.ts), the page's       *)
(* generateImage / generateVideo flows (src/unnamed/part_014), the status  *)
(* routes (image-status, video-status) and the submission routes           *)
(* (generate-image, generate-video) with their in-memory rate limiter.     *)
(*                                                                         *)
(* Conventions.  A JavaScript value that is undefined, null or the empty   *)
(* string is written "" (all three are falsy, and every test the modelled  *)
(* code makes on such a value is a truthiness test).  a || b is Or(a, b).  *)
(***************************************************************************)
EXTENDS Integers, Sequences, FiniteSets, TLC

VARIABLES
    \* ---- page flow + API client (part_014, services/api.ts) ----
    pc,            \* position of the flow: "idle", "submit", "poll", "done"
    kind,          \* "none", "image" or "video": which generate* callback runs
    provider,      \* currentProviderId captured by the callback
    retryI,        \* withRetry's loop index i
    pollI,         \* the poll loop's index i
    taskId,        \* result.predictionId / result.taskId of the submission
    isGenerating,  \* store.isGenerating
    curImage,      \* the placeholder image record of this flow
    curVideo,      \* the placeholder video record of this flow
    flowErr,       \* the ApiError caught by the callback (NoErr if none)
    flowUrl,       \* the locator the flow stored on success
    \* ---- observation of the flow (history variables) ----
    submits,       \* submission requests sent by this flow
    queries,       \* status queries issued by this flow
    hist,          \* the first HistLen status results the poll loop received
    onlyProcessing,\* every status result so far had status PROCESSING
    sawNoLocator,  \* a status route answered SUCCESS without a locator
    \* ---- submission routes and their rate limiter ----
    route,         \* the route the requests go to: "image" or "video"
    clock,         \* Date.now()
    ticks,         \* how often the clock has advanced
    rateLimitMap,  \* rateLimitMap of the route: ip -> entry
    inflight,      \* requests past checkRateLimit whose handler has not finished
    last,          \* the request handled last, its response and outbound call
    admitted,      \* ip -> requests admitted in the window of the ip's entry
    keyRejects,    \* ip -> requests of that window rejected for a missing key
    \* ---- one evaluation of a pure function of a route ----
    fnIn,          \* the input drawn
    fnOut,         \* the value computed from it
    fnDone,        \* the function has been applied
    \* ---- several flows of the page at a time (part_014) ----
    flows,         \* flow -> its position, its callback and its poll index
    failedImage,   \* the gallery shows an image with the error flag (and Retry)
    \* ---- the video flow of the useAIGenerator hook ----
    poller,        \* the version of the loop: "startPolling" or "pollVideoStatus"
    hookPc,        \* "idle", "submit", "poll" (a poll is pending) or "done"
    pollCount,     \* pollCount of pollVideoStatus
    isGeneratingVideo,
    pollingTaskId, \* "" = null
    pollingProgress, \* in thirds of a percent
    generatedVideo,  \* status of the record of the task in generatedVideos ("" = none)
    hookQueries    \* status queries issued by the loop

clientVars == <<pc, kind, provider, retryI, pollI, taskId, isGenerating,
                curImage, curVideo, flowErr, flowUrl,
                submits, queries, hist, onlyProcessing, sawNoLocator>>

routeVars == <<route, clock, ticks, rateLimitMap, inflight, last, admitted, keyRejects>>

fnVars == <<fnIn, fnOut, fnDone>>

overlapVars == <<flows, failedImage>>

hookVars == <<poller, hookPc, pollCount, isGeneratingVideo, pollingTaskId,
              pollingProgress, generatedVideo, hookQueries>>

vars == <<clientVars, routeVars, fnVars, overlapVars, hookVars>>

-----------------------------------------------------------------------------
(* JavaScript helpers *)

\* a || b on strings
Or(a, b) == IF a # "" THEN a ELSE b

\* a || b || c
Or3(a, b, c) == Or(Or(a, b), c)

-----------------------------------------------------------------------------
(* Bounds of the model *)

\* how many status results the history variable hist keeps
HistLen == 3

\* how often the clock advances in a run of the submission routes
MaxTicks == 2

\* how many handlers of a submission route run at the same time
MaxInFlight == 2

\* how many status queries of the hook's poll loop a run follows
MaxQueries == 62

(* Program constants *)

\* pollImageStatus / pollVideoStatus: maxPolls = 60
maxPolls == 60

\* withRetry: maxRetries = 3
maxRetries == 3

-----------------------------------------------------------------------------
(* Values *)

Locators == {"L1", "L2"}

ImageProviders == {"zhipu", "openai", "stability", "replicate", "fal", "gemini"}
VideoProviders == {"zhipu", "replicate", "fal", "kling", "runway"}

\* the providers the page flow is run with: for images one that answers with
\* a prediction id and one that answers with the image, for video two of the
\* list (the flow only passes the provider id on)
FlowImageProviders == {"replicate", "zhipu"}
FlowVideoProviders == {"zhipu", "replicate"}

\* ApiError(message, status, requiresKey)
ApiError(message, status, requiresKey) ==
    [message |-> message, status |-> status, requiresKey |-> requiresKey]

NoErr == [message |-> "", status |-> -1, requiresKey |-> FALSE]

\* data of an ApiResponse: ImageResult, VideoResult and StatusResult share
\* the fields the client reads: id (predictionId / taskId), url (image /
\* videoUrl / imageUrl) and status
Data(id, url, status) == [id |-> id, url |-> url, status |-> status]

NoData == Data("", "", "")

\* what fetch + response.json() give apiFetch for one request to a route:
\* net = fetch rejected; json = the body parsed as JSON
Reply(http, success, error, requiresKey, data) ==
    [net |-> FALSE, json |-> TRUE, http |-> http, success |-> success,
     error |-> error, requiresKey |-> requiresKey, data |-> data]

NetworkFailure ==
    [net |-> TRUE, json |-> FALSE, http |-> 0, success |-> FALSE,
     error |-> "", requiresKey |-> FALSE, data |-> NoData]

NotJson(http) ==
    [net |-> FALSE, json |-> FALSE, http |-> http, success |-> FALSE,
     error |-> "", requiresKey |-> FALSE, data |-> NoData]

\* NextResponse.json({success: true, data})
JsonOk(data) == Reply(200, TRUE, "", FALSE, data)

\* NextResponse.json({success: false, error, requiresKey}, {status})
JsonError(http, error, requiresKey) == Reply(http, FALSE, error, requiresKey, NoData)

\* an API key, by what the code looks at: how it starts and how long it is
Key(prefix, len) == [prefix |-> prefix, len |-> len]

\* no apiKey (undefined or '')
NoKey == Key("", 0)

-----------------------------------------------------------------------------
(* services/api.ts: apiFetch *)

\* response.ok
ResponseOk(http) == http >= 200 /\ http <= 299

\* the user-friendly message apiFetch chooses for a failed request
apiFetchMessage(reply) ==
    IF reply.http = 402 THEN "Insufficient credits. Please add billing to your account."
    ELSE IF reply.http = 401 THEN "Invalid API key. Please check your key and try again."
    ELSE IF reply.http = 404 THEN "API endpoint not found. The service may be unavailable."
    ELSE IF reply.http = 429 THEN "Rate limited. Please wait a moment and try again."
    ELSE IF reply.http >= 500 THEN "Server error. Please try again later."
    ELSE Or(reply.error, "Request failed (" \o ToString(reply.http) \o ")")

\* apiFetch without `if (!response.ok || !data.success)`: every body that
\* parses is resolved
apiFetchTrusting(reply) ==
    IF reply.net
      THEN [ok |-> FALSE, data |-> NoData,
            err |-> ApiError("Failed to fetch", 0, FALSE)]
    ELSE IF ~reply.json
      THEN [ok |-> FALSE, data |-> NoData,
            err |-> ApiError("Server error: " \o ToString(reply.http), reply.http, FALSE)]
    ELSE [ok |-> TRUE, data |-> reply.data, err |-> NoErr]

\* apiFetch: the resolved ApiResponse (ok = TRUE) or the ApiError it throws
apiFetch(reply) ==
    IF reply.net
      THEN [ok |-> FALSE, data |-> NoData,
            err |-> ApiError("Failed to fetch", 0, FALSE)]
    ELSE IF ~reply.json
      THEN [ok |-> FALSE, data |-> NoData,
            err |-> ApiError("Server error: " \o ToString(reply.http), reply.http, FALSE)]
    ELSE IF ~ResponseOk(reply.http) \/ ~reply.success
      THEN [ok |-> FALSE, data |-> NoData,
            err |-> ApiError(apiFetchMessage(reply), reply.http, reply.requiresKey)]
    ELSE [ok |-> TRUE, data |-> reply.data, err |-> NoErr]

-----------------------------------------------------------------------------
(* The status routes *)

\* raw status strings a provider may send ("" = the field is missing)
RawStatuses == {"", "starting", "processing", "succeeded", "completed", "SUCCESS",
                "failed", "canceled", "error", "FAIL"}

\* the answer of Replicate to GET /v1/predictions/{id}: net = fetch rejected,
\* output = data.output (isArray, items; a string is items of length 1 with
\* isArray FALSE, a missing output is no items)
ImagePayload(http, status, isArray, items) ==
    [net |-> FALSE, http |-> http, status |-> status,
     isArray |-> isArray, items |-> items]

ImageFetchFailed ==
    [net |-> TRUE, http |-> 0, status |-> "", isArray |-> FALSE, items |-> <<>>]

\* the locator taken from the last element of data.output
ImageUrlOfLast(p) == IF Len(p.items) > 0 THEN p.items[Len(p.items)] ELSE ""

\* Array.isArray(data.output) ? data.output[0] : data.output
ImageUrlOf(p) == IF Len(p.items) > 0 THEN p.items[1] ELSE ""

\* /^[a-zA-Z0-9_-]+$/.test(predictionId): the ids of the model and their verdict
PredictionIds == {"", "t1", "undefined", "a/b"}
ValidPredictionId(id) == id \in {"t1", "undefined"}

\* the mapping of image-status without its canceled operand
ImageStatusOfFailedOnly(status) ==
    IF status = "succeeded" THEN "SUCCESS"
    ELSE IF status = "failed" THEN "FAIL"
    ELSE "PROCESSING"

\* image-status: the status mapping of the route
ImageStatusOf(status) ==
    IF status = "succeeded" THEN "SUCCESS"
    ELSE IF status = "failed" \/ status = "canceled" THEN "FAIL"
    ELSE "PROCESSING"

\* GET /api/image-status: allowed = checkRateLimit(clientIp)
ImageStatusRoute(allowed, predictionId, apiKey, p) ==
    IF ~allowed THEN JsonError(429, "Too many requests", FALSE)
    ELSE IF predictionId = "" \/ ~ValidPredictionId(predictionId)
      THEN JsonError(400, "Invalid predictionId", FALSE)
    ELSE IF apiKey = NoKey THEN JsonError(401, "API key required", TRUE)
    ELSE IF p.net THEN JsonError(500, "Failed to check image status", FALSE)
    ELSE IF ~ResponseOk(p.http) THEN JsonError(p.http, "Replicate API error", FALSE)
    ELSE IF ImageStatusOf(p.status) = "SUCCESS"
      THEN JsonOk(Data("", ImageUrlOf(p), "SUCCESS"))
    ELSE JsonOk(Data("", "", ImageStatusOf(p.status)))

\* the answer of Zhipu to GET /video/generations/{taskId}
VideoPayload(http, status, task_status, video_url, video, data_video_url) ==
    [net |-> FALSE, http |-> http, status |-> status, task_status |-> task_status,
     video_url |-> video_url, video |-> video, data_video_url |-> data_video_url]

VideoFetchFailed ==
    [net |-> TRUE, http |-> 0, status |-> "", task_status |-> "",
     video_url |-> "", video |-> "", data_video_url |-> ""]

\* data.status || data.task_status || 'PROCESSING'
VideoRawStatus(p) == Or3(p.status, p.task_status, "PROCESSING")

\* data.video_url || data.video || data.data?.video_url
VideoUrlOf(p) == Or3(p.video_url, p.video, p.data_video_url)

\* video-status: the status mapping of the route
VideoStatusOf(status) ==
    IF status = "SUCCESS" \/ status = "completed" \/ status = "succeeded" THEN "SUCCESS"
    ELSE IF status = "FAIL" \/ status = "failed" THEN "FAIL"
    ELSE "PROCESSING"

\* GET /api/video-status: envKey = process.env.ZAI_API_KEY
VideoStatusRoute(taskIdParam, envKey, p) ==
    IF taskIdParam = "" THEN JsonError(400, "taskId is required", FALSE)
    ELSE IF envKey = NoKey THEN JsonError(401, "API key required", FALSE)
    ELSE IF p.net THEN JsonError(500, "fetch failed", FALSE)
    ELSE IF ~ResponseOk(p.http) THEN JsonError(p.http, "API error", FALSE)
    ELSE IF VideoStatusOf(VideoRawStatus(p)) = "SUCCESS"
      THEN JsonOk(Data("", VideoUrlOf(p), "SUCCESS"))
    ELSE JsonOk(Data("", "", VideoStatusOf(VideoRawStatus(p))))

-----------------------------------------------------------------------------
(* Inputs of the page flow: what the routes and the providers may answer *)

\* the API key the user entered for the current provider (non-empty: the
\* callbacks return early on an empty key)
UserKey == Key("sk-", 25)

\* process.env.ZAI_API_KEY of the deployment (NoKey = not set)
EnvKeys == {NoKey, Key("zk", 30)}

\* error statuses a route may answer with
ErrorHttp == {400, 401, 402, 404, 429, 500, 502}

\* answers of POST /api/generate-image as the client sees them: a direct
\* image, a prediction id (Replicate), neither of them, an error, a body
\* that is not JSON, or no answer at all
ImageSubmitReplies ==
    {JsonOk(Data("", l, "")) : l \in Locators}
    \cup {JsonOk(Data("t1", "", "starting")), JsonOk(NoData)}
    \cup {JsonError(h, "route error", h = 401) : h \in ErrorHttp}
    \cup {NotJson(504), NetworkFailure}

\* answers of POST /api/generate-video as the client sees them
VideoSubmitReplies ==
    {JsonOk(Data(id, "", "")) : id \in {"t1", ""}}
    \cup {JsonError(h, "route error", h = 401) : h \in ErrorHttp}
    \cup {NotJson(504), NetworkFailure}

\* data.output of a Replicate prediction
ImageOutputs ==
    {[isArray |-> FALSE, items |-> <<>>], [isArray |-> FALSE, items |-> <<"L1">>],
     [isArray |-> TRUE, items |-> <<>>], [isArray |-> TRUE, items |-> <<"L1">>],
     [isArray |-> TRUE, items |-> <<"L2", "L1">>]}

\* answers of Replicate to a status query
ImagePayloads ==
    {ImagePayload(200, st, o.isArray, o.items) : st \in RawStatuses, o \in ImageOutputs}
    \cup {ImagePayload(h, "", FALSE, <<>>) : h \in {401, 404, 500}}
    \cup {ImageFetchFailed}

\* answers of Zhipu to a status query: the status under status or under
\* task_status, the locator under one of the three fields or under none
VideoPayloads ==
    {VideoPayload(200, st, "", u[1], u[2], u[3]) :
        st \in RawStatuses,
        u \in {<<"", "", "">>, <<"L1", "", "">>, <<"", "L2", "">>, <<"", "", "L1">>,
               <<"L1", "L2", "">>}}
    \cup {VideoPayload(200, "", st, u, "", "") :
            st \in {"SUCCESS", "FAIL", "PROCESSING"}, u \in {"", "L2"}}
    \cup {VideoPayload(h, "", "", "", "", "") : h \in {401, 404, 500}}
    \cup {VideoFetchFailed}

\* `${taskId}` in a query string: a missing id is interpolated as "undefined"
Interpolate(id) == IF id = "" THEN "undefined" ELSE id

-----------------------------------------------------------------------------
(* The store records of the flow (store/studio-store.ts) *)

NoImage == [present |-> FALSE, loading |-> FALSE, image |-> "", error |-> FALSE]
NoVideo == [present |-> FALSE, taskId |-> "", status |-> "", videoUrl |-> ""]

\* updateImage(imageId, updates) on the flow's own record
updateImage(img, updates) ==
    [f \in DOMAIN img |-> IF f \in DOMAIN updates THEN updates[f] ELSE img[f]]

\* updateVideo(videoId, updates) on the flow's own record
updateVideo(vid, updates) ==
    [f \in DOMAIN vid |-> IF f \in DOMAIN updates THEN updates[f] ELSE vid[f]]

-----------------------------------------------------------------------------
(* services/api.ts: the loops *)

\* the loop condition written i <= maxRetries
RetryConditionInclusive(i) == i <= maxRetries

\* withRetry: for (let i = 0; i < maxRetries; i++)
RetryCondition(i) == i < maxRetries

\* withRetry without its test for auth errors
RetryNeverGivesUp(err) == FALSE

\* withRetry: if (error instanceof ApiError && error.status === 401) throw error
RetryGivesUp(err) == err.status = 401

\* the loop condition written i <= maxPolls
PollConditionOffByOne(i) == i <= maxPolls

\* pollImageStatus / pollVideoStatus: for (let i = 0; i < maxPolls; i++)
PollCondition(i) == i < maxPolls

\* the success test written against the provider's lower-case status
PollSucceededLowerCase(result) == result.status = "success" /\ result.url # ""

\* result.status === 'SUCCESS' && result.imageUrl (videoUrl)
PollSucceeded(result) == result.status = "SUCCESS" /\ result.url # ""

\* a loop that does not test for FAIL
PollFailedNever(result) == FALSE

\* result.status === 'FAIL'
PollFailed(result) == result.status = "FAIL"

\* throw new ApiError('Image generation failed', 500)
PollFailError(k) ==
    ApiError(IF k = "image" THEN "Image generation failed" ELSE "Video generation failed",
             500, FALSE)

\* throw new ApiError('Image generation timeout', 408)
PollTimeoutError(k) ==
    ApiError(IF k = "image" THEN "Image generation timeout" ELSE "Video generation timeout",
             408, FALSE)

-----------------------------------------------------------------------------
(* The page flow: generateImage / generateVideo (part_014) over the API    *)
(* client.  One action is one step of the callback between two awaits.     *)

\* the replies a status query of the flow may get: the route run on every
\* provider answer, or a failure between the browser and the route
ImageStatusReplies(id) ==
    {ImageStatusRoute(adm, Interpolate(id), UserKey, p) :
        adm \in BOOLEAN, p \in ImagePayloads}
    \cup {NotJson(504), NetworkFailure}

VideoStatusReplies(id) ==
    {VideoStatusRoute(Interpolate(id), k, p) : k \in EnvKeys, p \in VideoPayloads}
    \cup {NotJson(504), NetworkFailure}

\* catch (error) { updateImage / updateVideo ... } finally { setGenerating(false) }
FlowFails(err) ==
    /\ pc' = "done"
    /\ flowErr' = err
    /\ isGenerating' = FALSE
    /\ curImage' = IF kind = "image"
                     THEN updateImage(curImage, [loading |-> FALSE, error |-> TRUE])
                     ELSE curImage
    /\ curVideo' = IF kind = "video"
                     THEN updateVideo(curVideo, [status |-> "FAIL"])
                     ELSE curVideo
    /\ UNCHANGED <<kind, provider, flowUrl>>

\* updateImage(imageId, {image, loading: false}) / updateVideo(videoId,
\* {status: 'SUCCESS', videoUrl}), then finally { setGenerating(false) }
FlowSucceeds(url) ==
    /\ pc' = "done"
    /\ flowUrl' = url
    /\ isGenerating' = FALSE
    /\ curImage' = IF kind = "image"
                     THEN updateImage(curImage, [image |-> url, loading |-> FALSE])
                     ELSE curImage
    /\ curVideo' = IF kind = "video"
                     THEN updateVideo(curVideo, [status |-> "SUCCESS", videoUrl |-> url])
                     ELSE curVideo
    /\ UNCHANGED <<kind, provider, flowErr>>

\* generateImage up to the first await: setGenerating(true), addImage(placeholder)
StartImage ==
    /\ pc = "idle"
    /\ \E prov \in FlowImageProviders : provider' = prov
    /\ pc' = "submit"
    /\ kind' = "image"
    /\ isGenerating' = TRUE
    /\ curImage' = [present |-> TRUE, loading |-> TRUE, image |-> "", error |-> FALSE]
    /\ UNCHANGED <<retryI, pollI, taskId, curVideo, flowErr, flowUrl,
                   submits, queries, hist, onlyProcessing, sawNoLocator>>
    /\ UNCHANGED <<routeVars, fnVars, overlapVars, hookVars>>

\* generateVideo up to the first await: setGenerating(true), addVideo(placeholder)
StartVideo ==
    /\ pc = "idle"
    /\ \E prov \in FlowVideoProviders : provider' = prov
    /\ pc' = "submit"
    /\ kind' = "video"
    /\ isGenerating' = TRUE
    /\ curVideo' = [present |-> TRUE, taskId |-> "", status |-> "PROCESSING", videoUrl |-> ""]
    /\ UNCHANGED <<retryI, pollI, taskId, curImage, flowErr, flowUrl,
                   submits, queries, hist, onlyProcessing, sawNoLocator>>
    /\ UNCHANGED <<routeVars, fnVars, overlapVars, hookVars>>

\* api.generateImage: one attempt of withRetry(() => apiFetch('/generate-image')),
\* and what generateImage does with its outcome
SubmitImageStep(reply) ==
    LET r == apiFetch(reply) IN
    /\ submits' = submits + 1
    /\ IF r.ok
         THEN IF r.data.id # ""
                THEN /\ pc' = "poll"
                     /\ taskId' = r.data.id
                     /\ UNCHANGED <<kind, provider, retryI, isGenerating, curImage,
                                    curVideo, flowErr, flowUrl>>
                ELSE /\ FlowSucceeds(r.data.url)
                     /\ UNCHANGED <<retryI, taskId>>
       ELSE IF RetryGivesUp(r.err)
         THEN /\ FlowFails(r.err)
              /\ UNCHANGED <<retryI, taskId>>
       ELSE IF RetryCondition(retryI + 1)
         THEN /\ retryI' = retryI + 1
              /\ UNCHANGED <<pc, kind, provider, taskId, isGenerating, curImage,
                             curVideo, flowErr, flowUrl>>
       ELSE /\ FlowFails(r.err)
            /\ retryI' = retryI + 1
            /\ UNCHANGED taskId
    /\ UNCHANGED <<pollI, queries, hist, onlyProcessing, sawNoLocator>>
    /\ UNCHANGED <<routeVars, fnVars, overlapVars, hookVars>>

SubmitImage ==
    /\ pc = "submit"
    /\ kind = "image"
    /\ RetryCondition(retryI)
    /\ \E reply \in ImageSubmitReplies : SubmitImageStep(reply)

\* api.generateVideo: apiFetch('/generate-video'), and what generateVideo does
\* with its outcome
SubmitVideoStep(reply) ==
    LET r == apiFetch(reply) IN
    /\ submits' = submits + 1
    /\ IF r.ok
         THEN /\ pc' = "poll"
              /\ taskId' = r.data.id
              /\ curVideo' = updateVideo(curVideo, [taskId |-> r.data.id])
              /\ UNCHANGED <<kind, provider, isGenerating, curImage, flowErr, flowUrl>>
         ELSE /\ FlowFails(r.err)
              /\ UNCHANGED taskId
    /\ UNCHANGED <<retryI, pollI, queries, hist, onlyProcessing, sawNoLocator>>
    /\ UNCHANGED <<routeVars, fnVars, overlapVars, hookVars>>

SubmitVideo ==
    /\ pc = "submit"
    /\ kind = "video"
    /\ \E reply \in VideoSubmitReplies : SubmitVideoStep(reply)

\* one iteration of pollImageStatus / pollVideoStatus: the status query, the
\* tests on its result, and the wait
PollStep(reply) ==
    LET r == apiFetch(reply)
        result == r.data
    IN
    /\ queries' = queries + 1
    /\ IF ~r.ok
         THEN /\ FlowFails(r.err)
              /\ onlyProcessing' = FALSE
              /\ UNCHANGED <<pollI, hist, sawNoLocator>>
         ELSE /\ hist' = IF Len(hist) < HistLen THEN Append(hist, result) ELSE hist
              /\ onlyProcessing' = (onlyProcessing /\ result.status = "PROCESSING")
              /\ sawNoLocator' = (sawNoLocator \/ (result.status = "SUCCESS" /\ result.url = ""))
              /\ IF PollSucceeded(result)
                   THEN /\ FlowSucceeds(result.url)
                        /\ UNCHANGED pollI
                 ELSE IF PollFailed(result)
                   THEN /\ FlowFails(PollFailError(kind))
                        /\ UNCHANGED pollI
                 ELSE /\ pollI' = pollI + 1
                      /\ UNCHANGED <<pc, kind, provider, isGenerating, curImage,
                                     curVideo, flowErr, flowUrl>>
    /\ UNCHANGED <<retryI, taskId, submits>>
    /\ UNCHANGED <<routeVars, fnVars, overlapVars, hookVars>>

PollImage ==
    /\ pc = "poll"
    /\ kind = "image"
    /\ PollCondition(pollI)
    /\ \E reply \in ImageStatusReplies(taskId) : PollStep(reply)

PollVideo ==
    /\ pc = "poll"
    /\ kind = "video"
    /\ PollCondition(pollI)
    /\ \E reply \in VideoStatusReplies(taskId) : PollStep(reply)

\* the loop ends without a result: throw new ApiError('... timeout', 408)
PollTimeout ==
    /\ pc = "poll"
    /\ ~PollCondition(pollI)
    /\ FlowFails(PollTimeoutError(kind))
    /\ UNCHANGED <<retryI, pollI, taskId, submits, queries, hist, onlyProcessing,
                   sawNoLocator>>
    /\ UNCHANGED <<routeVars, fnVars, overlapVars, hookVars>>

\* values of the variables a specification does not use
IdleClient ==
    /\ pc = "idle"
    /\ kind = "none"
    /\ provider = ""
    /\ retryI = 0
    /\ pollI = 0
    /\ taskId = ""
    /\ isGenerating = FALSE
    /\ curImage = NoImage
    /\ curVideo = NoVideo
    /\ flowErr = NoErr
    /\ flowUrl = ""
    /\ submits = 0
    /\ queries = 0
    /\ hist = <<>>
    /\ onlyProcessing = TRUE
    /\ sawNoLocator = FALSE

IdleRoute ==
    /\ route = "image"
    /\ clock = 0
    /\ ticks = 0
    /\ rateLimitMap = <<>>
    /\ inflight = <<>>
    /\ last = <<>>
    /\ admitted = <<>>
    /\ keyRejects = <<>>

IdleFn ==
    /\ fnIn = <<>>
    /\ fnOut = <<>>
    /\ fnDone = FALSE

IdleOverlap ==
    /\ flows = <<>>
    /\ failedImage = FALSE

IdleHook ==
    /\ poller = "pollVideoStatus"
    /\ generatedVideo = ""
    /\ hookPc = "idle"
    /\ pollCount = 0
    /\ isGeneratingVideo = FALSE
    /\ pollingTaskId = ""
    /\ pollingProgress = 0
    /\ hookQueries = 0

\* the user starts over: the next click on Generate begins a new flow
NewFlow ==
    /\ pc = "done"
    /\ pc' = "idle"
    /\ kind' = "none"
    /\ provider' = ""
    /\ retryI' = 0
    /\ pollI' = 0
    /\ taskId' = ""
    /\ isGenerating' = FALSE
    /\ curImage' = NoImage
    /\ curVideo' = NoVideo
    /\ flowErr' = NoErr
    /\ flowUrl' = ""
    /\ submits' = 0
    /\ queries' = 0
    /\ hist' = <<>>
    /\ onlyProcessing' = TRUE
    /\ sawNoLocator' = FALSE
    /\ UNCHANGED <<routeVars, fnVars, overlapVars, hookVars>>

InitClient == IdleClient /\ IdleRoute /\ IdleFn /\ IdleOverlap /\ IdleHook

NextClient ==
    \/ StartImage
    \/ StartVideo
    \/ SubmitImage
    \/ SubmitVideo
    \/ PollImage
    \/ PollVideo
    \/ PollTimeout
    \/ NewFlow

\* the page flow over the API client
SpecClient == InitClient /\ [][NextClient]_vars

\* every request of the flow is answered and every timer fires
FairSpecClient ==
    /\ SpecClient
    /\ WF_vars(SubmitImage)
    /\ WF_vars(SubmitVideo)
    /\ WF_vars(PollImage)
    /\ WF_vars(PollVideo)
    /\ WF_vars(PollTimeout)

-----------------------------------------------------------------------------
(* Properties of the page flow *)

\* C1: a poll loop whose status queries all return PROCESSING issues exactly
\* maxPolls queries and then ends with the timeout error (status 408); no
\* loop issues more than maxPolls queries, and every loop ends.
C1_PollTimesOut ==
    /\ [](queries <= maxPolls)
    /\ []((pc = "poll" /\ onlyProcessing) => queries = pollI)
    /\ []((pc = "done" /\ onlyProcessing /\ queries > 0)
            => (queries = maxPolls /\ flowErr = PollTimeoutError(kind)
                /\ flowErr.status = 408 /\ flowUrl = ""))
    /\ ((pc = "poll") ~> (pc = "done"))

\* a loop fed PROCESSING only has ended, after maxPolls queries, with 408
C1_Witness ==
    /\ pc = "done"
    /\ onlyProcessing
    /\ queries = maxPolls
    /\ flowErr.status = 408

\* C2 (as claimed): once a status route has answered SUCCESS without a locator,
\* the flow has ended with an error; it is not polled further.
C2_NoLocatorEndsFlow ==
    sawNoLocator => (pc = "done" /\ flowErr # NoErr /\ flowUrl = "")

\* C3 (as claimed): one generateImage or generateVideo call sends at most one
\* submission request.
C3_OneSubmission == submits <= 1

\* C4 (as claimed): after the video poll loop has exhausted its attempts the
\* error differs from the one of a provider-reported failure and the video is
\* not recorded as FAIL.
C4_TimeoutIsNotFail ==
    (kind = "video" /\ pc = "done" /\ flowErr = PollTimeoutError("video"))
        => (flowErr # PollFailError("video") /\ curVideo.status # "FAIL")

\* C5: a poll loop whose first three status results are PROCESSING, PROCESSING
\* and SUCCESS with locator L has ended after exactly 3 queries, with L as
\* its result and L stored in the flow's record.
C5_ScriptedPoll ==
    (/\ Len(hist) = 3
     /\ hist[1].status = "PROCESSING"
     /\ hist[2].status = "PROCESSING"
     /\ hist[3].status = "SUCCESS"
     /\ hist[3].url \in Locators)
        => (/\ pc = "done"
            /\ queries = 3
            /\ flowErr = NoErr
            /\ flowUrl = hist[3].url
            /\ (kind = "image" => curImage.image = hist[3].url)
            /\ (kind = "video" => curVideo.videoUrl = hist[3].url))

\* the scripted sequence has been played to a loop, which returned L2
C5_Witness ==
    /\ Len(hist) = 3
    /\ hist[1].status = "PROCESSING"
    /\ hist[2].status = "PROCESSING"
    /\ hist[3] = Data("", "L2", "SUCCESS")
    /\ queries = 3
    /\ flowUrl = "L2"

-----------------------------------------------------------------------------
(* The submission routes: POST /api/generate-image (generate-image/route.ts) *)
(* and POST /api/generate-video (part_004)                                   *)

\* generate-image: RATE_LIMIT
RATE_LIMIT_IMAGE == 10

\* generate-video: RATE_LIMIT
RATE_LIMIT_VIDEO == 5

\* RATE_WINDOW of both routes, in milliseconds
RATE_WINDOW == 60000

\* sanitizePrompt: .slice(0, 2000) in generate-image, .slice(0, 1000) in generate-video
PROMPT_MAX_IMAGE == 2000
PROMPT_MAX_VIDEO == 1000

\* the RATE_LIMIT of a route
RATE_LIMIT(rt) == IF rt = "image" THEN RATE_LIMIT_IMAGE ELSE RATE_LIMIT_VIDEO

\* clientIp: x-forwarded-for || x-real-ip || 'unknown'.  checkRateLimit reads
\* and writes the entry of its caller alone, so a run follows one caller: the
\* one whose requests carry neither header
IPs == {"unknown"}

\* the window test written now >= entry.resetTime
WindowExpiredAtReset(m, ip, now) == ip \notin DOMAIN m \/ now >= m[ip].resetTime

\* !entry || now > entry.resetTime
WindowExpired(m, ip, now) == ip \notin DOMAIN m \/ now > m[ip].resetTime

\* the limit test written entry.count > RATE_LIMIT
LimitReachedOffByOne(entry, rt) == entry.count > RATE_LIMIT(rt)

\* entry.count >= RATE_LIMIT
LimitReached(entry, rt) == entry.count >= RATE_LIMIT(rt)

\* rateLimitMap.set(ip, entry)
MapSet(m, ip, entry) ==
    [x \in DOMAIN m \cup {ip} |-> IF x = ip THEN entry ELSE m[x]]

\* checkRateLimit(ip): the verdict and the map it leaves
checkRateLimit(m, rt, ip, now) ==
    IF WindowExpired(m, ip, now)
      THEN [allowed |-> TRUE,
            map |-> MapSet(m, ip, [count |-> 1, resetTime |-> now + RATE_WINDOW])]
    ELSE IF LimitReached(m[ip], rt)
      THEN [allowed |-> FALSE, map |-> m]
    ELSE [allowed |-> TRUE,
          map |-> MapSet(m, ip, [count |-> m[ip].count + 1, resetTime |-> m[ip].resetTime])]

\* characters of a prompt: a letter, a space, the angle brackets, a line feed
\* (a control character that trim() removes) and U+0001 (one that it keeps)
Chars == {"a", " ", "<", ">", "\n", "^A"}

\* the class written [<]
AngleCharsOpenOnly == {"<"}

\* [<>]
AngleChars == {"<", ">"}

\* [\x00-\x1F]
ControlChars == {"\n", "^A"}

\* the characters trim() removes
IsWhitespace(c) == c \in {" ", "\n"}

\* s.replace(/[...]/g, ''): s without the characters of the class
Strip(s, class) ==
    LET Kept(c) == c \notin class IN SelectSeq(s, Kept)

\* s.slice(0, n)
Slice(s, n) == IF Len(s) <= n THEN s ELSE SubSeq(s, 1, n)

RECURSIVE TrimStart(_)
TrimStart(s) ==
    IF s # <<>> /\ IsWhitespace(Head(s)) THEN TrimStart(Tail(s)) ELSE s

RECURSIVE TrimEnd(_)
TrimEnd(s) ==
    IF s # <<>> /\ IsWhitespace(s[Len(s)]) THEN TrimEnd(SubSeq(s, 1, Len(s) - 1)) ELSE s

\* s.trim()
Trim(s) == TrimEnd(TrimStart(s))

\* sanitizePrompt(prompt), with the route's slice length
sanitizePrompt(prompt, max) ==
    Trim(Slice(Strip(Strip(prompt, AngleChars), ControlChars), max))

\* the prompt of a request body: a string (its characters) or another value
Prompt(isString, truthy, chars) == [isString |-> isString, truthy |-> truthy, chars |-> chars]

\* !prompt || typeof prompt !== 'string' || prompt.trim().length === 0
PromptRejected(prompt) ==
    \/ ~prompt.truthy
    \/ ~prompt.isString
    \/ Len(Trim(prompt.chars)) = 0

\* generate-image: validateApiKey(provider, key)
validateApiKeyImage(prov, key) ==
    IF key = NoKey \/ key.len < 10 THEN FALSE
    ELSE IF prov = "openai" THEN key.prefix = "sk-"
    ELSE IF prov = "zhipu" THEN key.len >= 20
    ELSE IF prov = "stability" THEN key.prefix = "sk-" \/ key.len >= 20
    ELSE IF prov = "replicate" THEN key.prefix = "r8_" \/ key.len >= 20
    ELSE IF prov = "fal" THEN key.len >= 20
    ELSE IF prov = "gemini" THEN key.prefix = "AI" \/ key.len >= 20
    ELSE key.len >= 10

\* generate-video: validateApiKey(provider, key)
validateApiKeyVideo(prov, key) == ~(key = NoKey \/ key.len < 10)

\* the key test of a generate-image branch, with the fal branch left without one
ImageKeyRejectedNotFal(prov, key) ==
    prov # "fal" /\ (key = NoKey \/ ~validateApiKeyImage(prov, key))

\* generate-image: if (!apiKey || !validateApiKey(provider, apiKey))
ImageKeyRejected(prov, key) == key = NoKey \/ ~validateApiKeyImage(prov, key)

\* generate-video: if (!apiKey || !validateApiKey(provider, apiKey))
VideoKeyRejected(prov, key) == key = NoKey \/ ~validateApiKeyVideo(prov, key)

\* generate-image: validSizes.includes(size) ? size : '1024x1024'
validSizes == {"1024x1024", "1024x1792", "1792x1024"}
\* the size of the request used as it comes
validSizeUnchecked(size) == size

validSize(size) == IF size \in validSizes THEN size ELSE "1024x1024"

\* generate-video: Math.min(Math.max(Number(duration) || 5, 1), 10), on integers
validDuration(duration) ==
    LET n == IF duration = 0 THEN 5 ELSE duration
        lo == IF n > 1 THEN n ELSE 1
    IN  IF lo < 10 THEN lo ELSE 10

\* a request body of a submission route (parses = request.json() resolves);
\* { provider = 'zhipu' } = body: a missing provider is zhipu
Request(prompt, prov, apiKey, size, duration) ==
    [parses |-> TRUE, prompt |-> prompt,
     provider |-> IF prov = "" THEN "zhipu" ELSE prov,
     apiKey |-> apiKey, size |-> size, duration |-> duration]

\* a request whose body is not JSON
BadBody ==
    [parses |-> FALSE, prompt |-> Prompt(FALSE, FALSE, <<>>), provider |-> "",
     apiKey |-> NoKey, size |-> "", duration |-> 0]

\* the outbound fetch of a handler: the provider called, the key in the
\* Authorization header, the key in the URL, the prompt and the duration of
\* the body (0 = no duration is sent); size = the size an image branch sends
\* or derives its aspect ratio from ("" = none)
Call(prov, headerKey, urlKey, prompt, duration) ==
    [called |-> TRUE, provider |-> prov, headerKey |-> headerKey,
     urlKey |-> urlKey, prompt |-> prompt, duration |-> duration, size |-> ""]

NoCall ==
    [called |-> FALSE, provider |-> "", headerKey |-> NoKey, urlKey |-> NoKey,
     prompt |-> <<>>, duration |-> 0, size |-> ""]

\* what a handler did: its response and its outbound call
Handled(response, call) == [response |-> response, call |-> call]

\* the answer of a provider to a submission: net = fetch rejected, detail =
\* the message of its error body, items = data.data[0] (data.predictions[0],
\* data.images[0]) exists, f1, f2, f3 = the fields the provider's branch
\* probes for the locator, in its order, and the id fields
SubmitPayload(http, detail, items, f, ids) ==
    [net |-> FALSE, http |-> http, detail |-> detail, items |-> items,
     f1 |-> f[1], f2 |-> f[2], f3 |-> f[3],
     id |-> ids[1], task_id |-> ids[2], data_id |-> ids[3],
     request_id |-> ids[4], data_task_id |-> ids[5]]

SubmitFetchFailed ==
    [net |-> TRUE, http |-> 0, detail |-> "", items |-> FALSE,
     f1 |-> "", f2 |-> "", f3 |-> "",
     id |-> "", task_id |-> "", data_id |-> "", request_id |-> "", data_task_id |-> ""]

\* locators a provider may send on a submission: a URL, a data: URI, raw base64
HttpLocators == {"https://cdn/x.png"}
DataLocators == {"data:image/png;base64,AAAA"}
RawLocators == {"QUJD"}

\* `data:image/png;base64,${imageData}`
DataUri(b) == "data:image/png;base64," \o b

\* POST /api/generate-video, the zhipu branch
VideoZhipu(req, clean, p) ==
    LET call == Call("zhipu", req.apiKey, NoKey, clean, 0)
        taskId_ == Or3(p.id, p.task_id, p.data_id)
    IN  IF p.net
          THEN Handled(JsonError(502, "Failed to connect to Zhipu AI. Check your connection.", FALSE), call)
        ELSE IF ~ResponseOk(p.http)
          THEN Handled(JsonError(400,
                    IF p.http = 401 THEN "Invalid Zhipu AI API key. Check your key at open.bigmodel.cn"
                    ELSE IF p.http = 404 THEN "Zhipu AI video endpoint not found."
                    ELSE IF p.http = 429 THEN "Zhipu AI rate limit exceeded. Please wait."
                    ELSE Or(p.detail, "Zhipu AI error (" \o ToString(p.http) \o ")"), FALSE), call)
        ELSE IF taskId_ = ""
          THEN Handled(JsonError(500, "No task ID returned from Zhipu AI", FALSE), call)
        ELSE Handled(JsonOk(Data(taskId_, "", "")), call)

\* POST /api/generate-video, the replicate branch
VideoReplicate(req, clean, p) ==
    LET call == Call("replicate", req.apiKey, NoKey, clean, validDuration(req.duration)) IN
    IF p.net
      THEN Handled(JsonError(502, "Failed to connect to Replicate. Check your API key.", FALSE), call)
    ELSE IF ~ResponseOk(p.http)
      THEN Handled(JsonError(p.http, Or(p.detail, "Replicate error: " \o ToString(p.http)), FALSE), call)
    ELSE Handled(JsonOk(Data(p.id, "", "")), call)

\* POST /api/generate-video, the fal branch
VideoFal(req, clean, p) ==
    LET call == Call("fal", req.apiKey, NoKey, clean, validDuration(req.duration)) IN
    IF p.net
      THEN Handled(JsonError(502, "Failed to connect to fal.ai. Check your connection.", FALSE), call)
    ELSE IF ~ResponseOk(p.http)
      THEN Handled(JsonError(400,
                IF p.http = 404 THEN "fal.ai video endpoint unavailable. Try again later."
                ELSE IF p.http = 401 THEN "Invalid fal.ai API key"
                ELSE IF p.http = 402 THEN "fal.ai: Insufficient credits"
                ELSE Or(p.detail, "fal.ai error: " \o ToString(p.http)), FALSE), call)
    ELSE Handled(JsonOk(Data(p.request_id, p.f1, "")), call)

\* POST /api/generate-video, the kling branch
VideoKling(req, clean, p) ==
    LET call == Call("kling", req.apiKey, NoKey, clean, validDuration(req.duration)) IN
    IF p.net
      THEN Handled(JsonError(502, "Failed to connect to Kling AI. Check your connection.", FALSE), call)
    ELSE IF ~ResponseOk(p.http)
      THEN Handled(JsonError(400,
                IF p.http = 404 THEN "Kling AI endpoint unavailable. Try again later."
                ELSE IF p.http = 401 THEN "Invalid Kling AI API key"
                ELSE Or(p.detail, "Kling error: " \o ToString(p.http)), FALSE), call)
    ELSE Handled(JsonOk(Data(Or(p.data_task_id, p.task_id), "", "")), call)

\* POST /api/generate-video: allowed = checkRateLimit(clientIp), req = the
\* body, p = the answer of the provider if the handler calls it
PostVideo(allowed, req, p) ==
    IF ~allowed
      THEN Handled(JsonError(429, "Too many requests. Please wait a minute.", FALSE), NoCall)
    ELSE IF ~req.parses
      THEN Handled(JsonError(500, "Something went wrong. Please try again.", FALSE), NoCall)
    ELSE IF PromptRejected(req.prompt)
      THEN Handled(JsonError(400, "Prompt is required", FALSE), NoCall)
    ELSE IF VideoKeyRejected(req.provider, req.apiKey)
      THEN Handled(JsonError(401, "Valid API key required", TRUE), NoCall)
    ELSE LET clean == sanitizePrompt(req.prompt.chars, PROMPT_MAX_VIDEO) IN
         IF req.provider = "zhipu" THEN VideoZhipu(req, clean, p)
         ELSE IF req.provider = "runway"
           THEN Handled(JsonError(400, "Runway integration requires setup. Please use Zhipu AI for now.", FALSE), NoCall)
         ELSE IF req.provider = "replicate" THEN VideoReplicate(req, clean, p)
         ELSE IF req.provider = "fal" THEN VideoFal(req, clean, p)
         ELSE IF req.provider = "kling" THEN VideoKling(req, clean, p)
         ELSE Handled(JsonError(400, "Unknown provider", FALSE), NoCall)

\* the name of a provider in the messages of generate-image
ProviderLabel(prov) ==
    IF prov = "zhipu" THEN "Zhipu AI"
    ELSE IF prov = "openai" THEN "OpenAI"
    ELSE IF prov = "stability" THEN "Stability AI"
    ELSE IF prov = "replicate" THEN "Replicate"
    ELSE IF prov = "fal" THEN "fal.ai"
    ELSE "Gemini"

\* POST /api/generate-image: what a provider branch answers once its key test
\* has passed and its fetch has been made
ImageBranch(req, clean, p) ==
    LET prov == req.provider
        size == validSize(req.size)
        call == IF prov = "gemini"
                  THEN [Call(prov, NoKey, req.apiKey, clean, 0) EXCEPT !.size = size]
                  ELSE [Call(prov, req.apiKey, NoKey, clean, 0) EXCEPT !.size = size]
        ok(url) == Handled(JsonOk(Data("", url, "")), call)
        fail(http, msg) == Handled(JsonError(http, msg, FALSE), call)
    IN
    IF p.net THEN fail(502, "Failed to connect to " \o ProviderLabel(prov) \o ". Check your API key.")
    ELSE IF ~ResponseOk(p.http) THEN fail(p.http, Or(p.detail, ProviderLabel(prov) \o " error: " \o ToString(p.http)))
    ELSE IF prov = "zhipu"
      THEN IF Or3(p.f1, p.f2, p.f3) = "" THEN fail(500, "No image URL in response")
           ELSE ok(Or3(p.f1, p.f2, p.f3))
    ELSE IF prov = "openai"
      THEN IF ~p.items THEN fail(502, "Failed to connect to " \o ProviderLabel(prov) \o ". Check your API key.")
           ELSE ok(p.f1)
    ELSE IF prov = "stability"
      THEN IF Or3(p.f1, p.f2, p.f3) = "" THEN fail(500, "No image data in response")
           ELSE IF Or3(p.f1, p.f2, p.f3) \in HttpLocators \cup DataLocators
             THEN ok(Or3(p.f1, p.f2, p.f3))
           ELSE ok(DataUri(Or3(p.f1, p.f2, p.f3)))
    ELSE IF prov = "replicate"
      THEN Handled(JsonOk(Data(p.id, "", "starting")), call)
    ELSE IF prov = "fal"
      THEN IF Or(p.f1, p.f2) = "" THEN fail(500, "No image URL in fal.ai response")
           ELSE ok(Or(p.f1, p.f2))
    ELSE IF p.f1 = "" THEN fail(500, "No image data in Gemini response")
    ELSE ok(DataUri(p.f1))

\* POST /api/generate-image
PostImage(allowed, req, p) ==
    IF ~allowed
      THEN Handled(JsonError(429, "Too many requests. Please wait a minute.", FALSE), NoCall)
    ELSE IF ~req.parses
      THEN Handled(JsonError(500, "Something went wrong. Please try again.", FALSE), NoCall)
    ELSE IF PromptRejected(req.prompt)
      THEN Handled(JsonError(400, "Please enter a prompt", FALSE), NoCall)
    ELSE IF req.provider \notin ImageProviders
      THEN Handled(JsonError(400, "Unknown provider", FALSE), NoCall)
    ELSE IF ImageKeyRejected(req.provider, req.apiKey)
      THEN Handled(JsonError(401, "Valid API key required", TRUE), NoCall)
    ELSE ImageBranch(req, sanitizePrompt(req.prompt.chars, PROMPT_MAX_IMAGE), p)

\* the handler of a route
Post(rt, allowed, req, p) ==
    IF rt = "image" THEN PostImage(allowed, req, p) ELSE PostVideo(allowed, req, p)

-----------------------------------------------------------------------------
(* The submission routes under concurrent requests.  A handler runs         *)
(* checkRateLimit before its first await (Arrive) and the rest, from        *)
(* request.json() on, after it (Complete); handlers of other requests may   *)
(* run in between.  The two routes keep separate maps: a run of the model   *)
(* sends all its requests to one of them.                                   *)

Slots == 1..MaxInFlight

Free == [busy |-> FALSE, ip |-> "", win |-> 0]

NoWindow == [win |-> -1, n |-> 0]

NothingHandled ==
    [seen |-> FALSE, ip |-> "", limited |-> FALSE, legit |-> 0,
     req |-> BadBody, response |-> JsonOk(NoData), call |-> NoCall]

\* request bodies sent to a route under load: the same well-formed request
\* with a key, without one, and with a blank prompt
RouteRequests ==
    {Request(Prompt(TRUE, TRUE, <<"a">>), "zhipu", k, "1024x1024", 5) : k \in {NoKey, UserKey}}
    \cup {Request(Prompt(TRUE, TRUE, <<" ">>), "zhipu", UserKey, "1024x1024", 5)}

\* answers of the provider to these submissions: accepted or unreachable
RoutePayloads ==
    {SubmitPayload(200, "", TRUE, <<"https://cdn/x.png", "", "">>, <<"t1", "", "", "t1", "t1">>),
     SubmitFetchFailed}

InitRoute ==
    /\ IdleClient
    /\ IdleFn
    /\ IdleOverlap
    /\ IdleHook
    /\ route \in {"image", "video"}
    /\ clock = 0
    /\ ticks = 0
    /\ rateLimitMap = <<>>
    /\ inflight = [s \in Slots |-> Free]
    /\ last = NothingHandled
    /\ admitted = [ip \in IPs |-> NoWindow]
    /\ keyRejects = [ip \in IPs |-> 0]

\* time passes: by a millisecond or by a whole window
Tick ==
    /\ ticks < MaxTicks
    /\ \E d \in {1, RATE_WINDOW} : clock' = clock + d
    /\ ticks' = ticks + 1
    /\ UNCHANGED <<route, rateLimitMap, inflight, last, admitted, keyRejects>>
    /\ UNCHANGED <<clientVars, fnVars, overlapVars, hookVars>>

\* a request arrives and its handler runs checkRateLimit: it is admitted, and
\* the handler awaits the body
ArriveAdmitted(ip, s) ==
    LET r == checkRateLimit(rateLimitMap, route, ip, clock)
        win == r.map[ip].resetTime
    IN
    /\ ~inflight[s].busy
    /\ r.allowed
    /\ rateLimitMap' = r.map
    /\ inflight' = [inflight EXCEPT ![s] = [busy |-> TRUE, ip |-> ip, win |-> win]]
    /\ admitted' = [admitted EXCEPT ![ip] =
                      IF admitted[ip].win = win
                        THEN [win |-> win, n |-> admitted[ip].n + 1]
                        ELSE [win |-> win, n |-> 1]]
    /\ keyRejects' = [keyRejects EXCEPT ![ip] =
                        IF admitted[ip].win = win THEN keyRejects[ip] ELSE 0]
    /\ UNCHANGED <<route, clock, ticks, last>>
    /\ UNCHANGED <<clientVars, fnVars, overlapVars, hookVars>>

\* a request arrives and checkRateLimit refuses it: the handler answers 429
ArriveLimited(ip) ==
    LET r == checkRateLimit(rateLimitMap, route, ip, clock)
        h == Post(route, FALSE, BadBody, SubmitFetchFailed)
    IN
    /\ ~r.allowed
    /\ rateLimitMap' = r.map
    /\ last' = [seen |-> TRUE, ip |-> ip, limited |-> TRUE,
                legit |-> admitted[ip].n - keyRejects[ip],
                req |-> BadBody, response |-> h.response, call |-> h.call]
    /\ UNCHANGED <<route, clock, ticks, inflight, admitted, keyRejects>>
    /\ UNCHANGED <<clientVars, fnVars, overlapVars, hookVars>>

\* the response is the 401 of a missing or invalid key
IsKeyRejection(h) == h.response.http = 401 /\ h.response.requiresKey /\ ~h.call.called

\* the handler of an admitted request runs to its response
Complete(s, req, p) ==
    LET ip == inflight[s].ip
        h == Post(route, TRUE, req, p)
    IN
    /\ inflight[s].busy
    /\ inflight' = [inflight EXCEPT ![s] = Free]
    /\ last' = [seen |-> TRUE, ip |-> ip, limited |-> FALSE, legit |-> 0,
                req |-> req, response |-> h.response, call |-> h.call]
    /\ keyRejects' = [keyRejects EXCEPT ![ip] =
                        IF IsKeyRejection(h) /\ ip \in DOMAIN rateLimitMap
                           /\ rateLimitMap[ip].resetTime = inflight[s].win
                          THEN keyRejects[ip] + 1
                          ELSE keyRejects[ip]]
    /\ UNCHANGED <<route, clock, ticks, rateLimitMap, admitted>>
    /\ UNCHANGED <<clientVars, fnVars, overlapVars, hookVars>>

Admit == \E ip \in IPs, s \in Slots : ArriveAdmitted(ip, s)

Limit == \E ip \in IPs : ArriveLimited(ip)

Respond == \E s \in Slots, req \in RouteRequests, p \in RoutePayloads : Complete(s, req, p)

NextRoute ==
    \/ Tick
    \/ Admit
    \/ Limit
    \/ Respond

\* a submission route under concurrent requests
SpecRoute == InitRoute /\ [][NextRoute]_vars

\* C7: a caller is admitted at most RATE_LIMIT times in one window (10 on the
\* image route, 5 on the video route) however its requests interleave, and a
\* request refused by the limiter is answered 429 without a provider call
C7_AtMostRateLimitAdmitted ==
    /\ \A ip \in IPs : admitted[ip].n <= RATE_LIMIT(route)
    /\ \A ip \in DOMAIN rateLimitMap : rateLimitMap[ip].count <= RATE_LIMIT(route)
    /\ (last.seen /\ last.limited) =>
          /\ last.response.http = 429
          /\ ~last.call.called
    /\ (last.seen /\ last.call.called) => ~last.limited

\* a request is refused with 429 after RATE_LIMIT admissions in the window,
\* some of them still awaiting their response
C7_Witness ==
    /\ last.seen /\ last.limited /\ last.response.http = 429
    /\ admitted[last.ip].n = RATE_LIMIT(route)
    /\ \E s \in Slots : inflight[s].busy /\ inflight[s].ip = last.ip

\* C8: a request refused for its missing credential does not count against
\* its caller: whenever a caller is answered 429, RATE_LIMIT of its requests
\* of the window were admitted and not refused for a missing credential
C8_KeyRejectionNotCounted ==
    (last.seen /\ last.limited) => last.legit >= RATE_LIMIT(route)

-----------------------------------------------------------------------------
(* The handlers as functions of one request: an input is drawn, the handler *)
(* is applied to it                                                         *)

\* the prompts of the requests drawn: a word, a blank string, no prompt
FnPrompts == {Prompt(TRUE, TRUE, <<"a">>), Prompt(TRUE, TRUE, <<" ">>), Prompt(FALSE, FALSE, <<>>)}

\* the keys of the requests drawn: none, a well-formed one, one too short
FnKeys == {NoKey, UserKey, Key("sk-", 5)}

\* the providers a route dispatches on
Handles(rt) == IF rt = "image" THEN ImageProviders ELSE VideoProviders

\* the request bodies drawn for a route ("other" = a provider it does not know)
FnRequests(rt) ==
    {Request(pr, prov, k, "1024x1024", 5) :
        pr \in FnPrompts, prov \in Handles(rt) \cup {"other"}, k \in FnKeys}
    \cup {BadBody}

\* the id fields of a provider's 2xx answer: each is missing or present, and
\* no two of them carry the same value
FnIds ==
    {<<a, b, c, d, e>> :
        a \in {"", "A"}, b \in {"", "B"}, c \in {"", "C"}, d \in {"", "D"}, e \in {"", "E"}}

\* the error statuses a provider answers a submission with
ProviderErrors == {400, 401, 402, 404, 429, 500, 503}

\* the answers of a provider drawn for a submission
FnPayloads ==
    {SubmitPayload(200, "", it, <<u, "", "">>, ids) :
        it \in BOOLEAN, u \in {"", "https://cdn/x.png"}, ids \in FnIds}
    \cup {SubmitPayload(h, t, FALSE, <<"", "", "">>, <<"", "", "", "", "">>) :
            h \in ProviderErrors, t \in {"", "provider text"}}
    \cup {SubmitFetchFailed}

\* the request drawn: the route, the verdict of its limiter, the body, and the
\* answer of the provider if the handler calls it
SubmitInput(rt, al, req, p) ==
    [fn |-> "submit", rt |-> rt, allowed |-> al, req |-> req, p |-> p]

InitSubmit ==
    /\ IdleClient
    /\ IdleRoute
    /\ IdleOverlap
    /\ IdleHook
    /\ \E rt \in {"image", "video"}, al \in BOOLEAN, p \in FnPayloads :
          \E req \in FnRequests(rt) : fnIn = SubmitInput(rt, al, req, p)
    /\ fnOut = <<>>
    /\ fnDone = FALSE

\* POST of a submission route handles the request drawn
HandleSubmission ==
    /\ ~fnDone
    /\ fnOut' = Post(fnIn.rt, fnIn.allowed, fnIn.req, fnIn.p)
    /\ fnDone' = TRUE
    /\ UNCHANGED fnIn
    /\ UNCHANGED <<clientVars, routeVars, overlapVars, hookVars>>

NextSubmit == HandleSubmission

\* a submission route on one request
SpecSubmit == InitSubmit /\ [][NextSubmit]_vars

\* GET /api/image-status: the fetch of the prediction at Replicate, made once
\* the limiter, the id test and the key test have passed, with the X-API-Key
\* header of the request as the bearer
ImageStatusCall(allowed, predictionId, apiKey) ==
    IF allowed /\ predictionId # "" /\ ValidPredictionId(predictionId) /\ apiKey # NoKey
      THEN Call("replicate", apiKey, NoKey, <<>>, 0)
      ELSE NoCall

\* GET /api/video-status: the fetch of the task at Zhipu, with
\* process.env.ZAI_API_KEY as the bearer; the route reads neither the
\* provider parameter nor the X-API-Key header of the request
VideoStatusCall(taskIdParam, envKey) ==
    IF taskIdParam # "" /\ envKey # NoKey
      THEN Call("zhipu", envKey, NoKey, <<>>, 0)
      ELSE NoCall

\* the providers whose branch of generate-video answers with a task id
TaskVideoProviders == {"zhipu", "replicate", "fal", "kling"}

\* the status queries drawn: prov = the provider the task was submitted to,
\* key = the key of that submission, both sent along by checkImageStatus /
\* checkVideoStatus; env = process.env.ZAI_API_KEY
StatusInputs ==
    {[fn |-> "imageStatus", allowed |-> al, id |-> id, prov |-> "replicate",
      key |-> k, env |-> NoKey, p |-> p] :
        al \in BOOLEAN, id \in PredictionIds, k \in {NoKey, UserKey}, p \in ImagePayloads}
    \cup
    {[fn |-> "videoStatus", allowed |-> TRUE, id |-> id, prov |-> prov,
      key |-> UserKey, env |-> k, p |-> p] :
        id \in {"", "t1"}, prov \in TaskVideoProviders, k \in EnvKeys, p \in VideoPayloads}

InitStatus ==
    /\ IdleClient
    /\ IdleRoute
    /\ IdleOverlap
    /\ IdleHook
    /\ fnIn \in StatusInputs
    /\ fnOut = <<>>
    /\ fnDone = FALSE

\* GET /api/image-status handles the query drawn
ApplyImageStatus ==
    /\ ~fnDone
    /\ fnIn.fn = "imageStatus"
    /\ fnOut' = Handled(ImageStatusRoute(fnIn.allowed, fnIn.id, fnIn.key, fnIn.p),
                        ImageStatusCall(fnIn.allowed, fnIn.id, fnIn.key))
    /\ fnDone' = TRUE
    /\ UNCHANGED fnIn
    /\ UNCHANGED <<clientVars, routeVars, overlapVars, hookVars>>

\* GET /api/video-status handles the query drawn
ApplyVideoStatus ==
    /\ ~fnDone
    /\ fnIn.fn = "videoStatus"
    /\ fnOut' = Handled(VideoStatusRoute(fnIn.id, fnIn.env, fnIn.p),
                        VideoStatusCall(fnIn.id, fnIn.env))
    /\ fnDone' = TRUE
    /\ UNCHANGED fnIn
    /\ UNCHANGED <<clientVars, routeVars, overlapVars, hookVars>>

NextStatus ==
    \/ ApplyImageStatus
    \/ ApplyVideoStatus

\* a status route on one query
SpecStatus == InitStatus /\ [][NextStatus]_vars

-----------------------------------------------------------------------------
(* The normalisation of a request: the handlers on requests that differ in  *)
(* their prompt, their size or their duration                               *)

\* how long the short prompts drawn are at most
MaxLen == 3

\* the sequences over S of length n
Seqs(S, n) == [1..n -> S]

\* the short prompts: every string over Chars up to MaxLen characters
ShortPrompts == UNION {Seqs(Chars, n) : n \in 0..MaxLen}

\* n times the character c
Repeat(c, n) == [i \in 1..n |-> c]

\* the long prompts: letters around the slice length of a route, alone, after
\* a character the sanitizer removes, after a blank, and before a blank that
\* the slice brings to the end
LongPrompts(max) ==
    UNION {{Repeat("a", n),
            <<"<">> \o Repeat("a", n),
            <<" ">> \o Repeat("a", n),
            Repeat("a", max - 1) \o <<" ">> \o Repeat("a", n - max + 1)} :
           n \in {max - 1, max, max + 1}}

\* the size values drawn: the three of validSizes, other strings, no size, and
\* values that are not strings (a number, an array holding a valid size)
FnSizes == validSizes \cup {"512x512", "1024X1024", "", "number:1024", "array:[1024x1024]"}

\* the durations drawn
FnDurations == -2..12

\* a well-formed request of a route with the prompt, size and duration given
NormalRequest(rt, prov, chars, size, duration) ==
    Request(Prompt(TRUE, chars # <<>>, chars), prov, UserKey, size, duration)

\* the provider accepts the submission
AcceptedPayload ==
    SubmitPayload(200, "", TRUE, <<"https://cdn/x.png", "", "">>, <<"t1", "", "", "t1", "t1">>)

PROMPT_MAX(rt) == IF rt = "image" THEN PROMPT_MAX_IMAGE ELSE PROMPT_MAX_VIDEO

InitNormalize ==
    /\ IdleClient
    /\ IdleRoute
    /\ IdleOverlap
    /\ IdleHook
    /\ \E rt \in {"image", "video"} : \E prov \in Handles(rt) :
          \/ \E chars \in ShortPrompts \cup LongPrompts(PROMPT_MAX(rt)) :
                fnIn = SubmitInput(rt, TRUE, NormalRequest(rt, prov, chars, "1024x1024", 5),
                                   AcceptedPayload)
          \/ \E size \in FnSizes :
                fnIn = SubmitInput(rt, TRUE, NormalRequest(rt, prov, <<"a">>, size, 5),
                                   AcceptedPayload)
          \/ \E duration \in FnDurations :
                fnIn = SubmitInput(rt, TRUE, NormalRequest(rt, prov, <<"a">>, "1024x1024", duration),
                                   AcceptedPayload)
    /\ fnOut = <<>>
    /\ fnDone = FALSE

\* a submission route on requests that differ in one parameter
SpecNormalize == InitNormalize /\ [][NextSubmit]_vars

\* a request of a route for one of its providers that carries no apiKey
C6_KeylessRequest ==
    /\ fnDone
    /\ fnIn.req.parses
    /\ fnIn.req.provider \in Handles(fnIn.rt)
    /\ fnIn.req.apiKey = NoKey

\* C6 as stated: every request without an apiKey for a provider of the route
\* is answered 401 with requiresKey: true, and no provider is called
C6_KeylessIs401 == C6_KeylessRequest => IsKeyRejection(fnOut)

\* C6: a request without an apiKey for a provider of the route is answered
\* 401 with requiresKey: true once the rate limiter has admitted it and its
\* prompt has passed validation (a refused one is answered 429, one without a
\* usable prompt 400); no request without an apiKey reaches a provider
C6_KeylessValidIs401 ==
    /\ (C6_KeylessRequest /\ fnIn.allowed /\ ~PromptRejected(fnIn.req.prompt))
          => IsKeyRejection(fnOut)
    /\ (fnDone /\ fnIn.req.apiKey = NoKey) => ~fnOut.call.called

\* an admitted fal image request with a prompt and no key is answered 401
C6_Witness ==
    /\ C6_KeylessRequest /\ fnIn.allowed /\ ~PromptRejected(fnIn.req.prompt)
    /\ fnIn.rt = "image" /\ fnIn.req.provider = "fal"
    /\ IsKeyRejection(fnOut)

\* a status route has answered a query with a status
C9_StatusAnswered == fnDone /\ fnOut.response.success

\* the raw status the route reads from the provider's answer
C9_RawStatusRead ==
    IF fnIn.fn = "imageStatus" THEN fnIn.p.status ELSE Or(fnIn.p.status, fnIn.p.task_status)

\* C9 as stated: both status routes map succeeded, completed and SUCCESS to
\* SUCCESS, failed, canceled and error to FAIL, and every other raw status,
\* a missing one included, to PROCESSING
C9_StatusMapping ==
    C9_StatusAnswered =>
        fnOut.response.data.status =
            IF C9_RawStatusRead \in {"succeeded", "completed", "SUCCESS"} THEN "SUCCESS"
            ELSE IF C9_RawStatusRead \in {"failed", "canceled", "error"} THEN "FAIL"
            ELSE "PROCESSING"

\* C9: each status route maps the raw statuses of its own provider:
\* image-status maps succeeded to SUCCESS, failed and canceled to FAIL;
\* video-status maps SUCCESS, completed and succeeded to SUCCESS, FAIL and
\* failed to FAIL; either maps every other raw status, a missing one
\* included, to PROCESSING
C9_StatusMappingPerRoute ==
    C9_StatusAnswered =>
        fnOut.response.data.status =
            IF fnIn.fn = "imageStatus"
              THEN IF C9_RawStatusRead = "succeeded" THEN "SUCCESS"
                   ELSE IF C9_RawStatusRead \in {"failed", "canceled"} THEN "FAIL"
                   ELSE "PROCESSING"
              ELSE IF C9_RawStatusRead \in {"SUCCESS", "completed", "succeeded"} THEN "SUCCESS"
                   ELSE IF C9_RawStatusRead \in {"FAIL", "failed"} THEN "FAIL"
                   ELSE "PROCESSING"

\* image-status has answered FAIL for a canceled prediction
C9_Witness ==
    /\ C9_StatusAnswered
    /\ fnIn.fn = "imageStatus"
    /\ C9_RawStatusRead = "canceled"
    /\ fnOut.response.data.status = "FAIL"

\* C10: generate-video answers a submission as accepted only with a non-empty
\* task id, the first non-empty of id, task_id and data.id, and answers a 2xx
\* provider response with none of the three with an error, in every provider
\* branch
C10_TaskIdRequired ==
    (fnDone /\ fnIn.rt = "video" /\ fnOut.call.called) =>
        LET id == Or3(fnIn.p.id, fnIn.p.task_id, fnIn.p.data_id) IN
        /\ fnOut.response.success => (fnOut.response.data.id # "" /\ fnOut.response.data.id = id)
        /\ (~fnIn.p.net /\ ResponseOk(fnIn.p.http) /\ id = "") => ~fnOut.response.success

\* C11: a success response of generate-image carries a non-empty image
\* locator or a non-empty prediction id, whatever the provider branch and
\* whatever the provider's 2xx response holds
C11_SuccessHasLocator ==
    (fnDone /\ fnIn.rt = "image" /\ fnOut.response.success) =>
        \/ fnOut.response.data.url # ""
        \/ fnOut.response.data.id # ""

\* C12: the status query of a task goes to the provider the task was
\* submitted to and carries the key of that submission
C12_StatusSameProviderAndKey ==
    (fnDone /\ fnOut.call.called) =>
        /\ fnOut.call.provider = fnIn.prov
        /\ fnOut.call.headerKey = fnIn.key

\* the class of a provider's error status
C13_Class(h) ==
    IF h = 401 THEN "credential"
    ELSE IF h = 402 THEN "balance"
    ELSE IF h = 404 THEN "unavailable"
    ELSE IF h = 429 THEN "rate"
    ELSE IF h >= 500 THEN "upstream"
    ELSE "other"

\* the ApiError the caller gets when the provider answers the request of
\* fnIn with the error status h and the error text t
C13_Outcome(h, t) ==
    apiFetch(Post(fnIn.rt, TRUE, fnIn.req,
                  SubmitPayload(h, t, FALSE, <<"", "", "">>, <<"", "", "", "", "">>)).response).err

\* C13: the error a caller gets for a provider status of one class (401, 402,
\* 404, 429, 500 or more) differs from the error it gets, for the same
\* request, for a provider status of any other class
C13_DistinctOutcomes ==
    (fnDone /\ fnOut.call.called /\ ~fnIn.p.net /\ C13_Class(fnIn.p.http) # "other") =>
        \A h \in ProviderErrors, t \in {"", "provider text"} :
            C13_Class(h) \notin {"other", C13_Class(fnIn.p.http)}
                => C13_Outcome(h, t) # apiFetch(fnOut.response).err

\* C14: an error response of a submission route has status 400, 401, 429,
\* 502 or 504: 400 for a prompt that fails validation, 401 for a missing or
\* invalid key, 429 for a request the limiter refuses, 502 or 504 for a
\* provider that fails
C14_ErrorStatuses ==
    (fnDone /\ ~fnOut.response.success) =>
        /\ fnOut.response.http \in {400, 401, 429, 502, 504}
        /\ ~fnIn.allowed => fnOut.response.http = 429
        /\ fnOut.call.called => fnOut.response.http \in {502, 504}

\* the submission attempt of the flow that is answered with reply
C15_Attempt(reply) ==
    /\ pc = "submit"
    /\ \/ kind = "image" /\ reply \in ImageSubmitReplies /\ SubmitImageStep(reply)
       \/ kind = "video" /\ reply \in VideoSubmitReplies /\ SubmitVideoStep(reply)

\* C15: a failed submission attempt never leads to a status query: the flow
\* ends with the error of the attempt (or, in withRetry, repeats the
\* submission), an attempt answered 401 ends the flow at once, after exactly
\* one attempt when it is the first, and a flow that has ended issues no
\* status query
C15_FailedSubmissionEndsFlow ==
    [][/\ \A reply \in ImageSubmitReplies \cup VideoSubmitReplies :
            (C15_Attempt(reply) /\ ~apiFetch(reply).ok) =>
                /\ queries = 0 /\ queries' = 0
                /\ pc' \in {"submit", "done"}
                /\ pc' = "done" => flowErr' = apiFetch(reply).err
                /\ apiFetch(reply).err.status = 401 =>
                      /\ pc' = "done"
                      /\ submits = 0 => submits' = 1
       /\ pc = "done" => queries' \in {queries, 0}
      ]_vars

\* an image flow has ended on the 401 of its first submission attempt,
\* without a status query
C15_Witness ==
    /\ pc = "done"
    /\ kind = "image"
    /\ flowErr.status = 401
    /\ submits = 1
    /\ queries = 0

\* C16: in the image flow a submission result without a prediction id
\* completes the flow with the image of the result and without a status
\* query; a result with a prediction id starts the poll loop and stores
\* nothing; the poll loop stores exactly the locator of the status result
\* that ended it, the first element of the output Replicate sent
C16_DirectOrPolled ==
    [][/\ \A reply \in ImageSubmitReplies :
            (pc = "submit" /\ kind = "image" /\ apiFetch(reply).ok /\ SubmitImageStep(reply)) =>
                IF apiFetch(reply).data.id = ""
                  THEN /\ pc' = "done"
                       /\ curImage'.image = apiFetch(reply).data.url
                       /\ ~curImage'.loading
                       /\ queries' = 0
                  ELSE /\ pc' = "poll"
                       /\ taskId' = apiFetch(reply).data.id
                       /\ curImage' = curImage
       /\ \A adm \in BOOLEAN, p \in ImagePayloads :
            LET reply == ImageStatusRoute(adm, Interpolate(taskId), UserKey, p) IN
            (pc = "poll" /\ kind = "image" /\ PollStep(reply) /\ curImage'.image # curImage.image) =>
                /\ Len(p.items) > 0
                /\ curImage'.image = p.items[1]
                /\ queries' >= 1
       /\ (kind = "image" /\ curImage'.image # curImage.image /\ curImage'.present) =>
            pc \in {"submit", "poll"} /\ (taskId # "" => pc = "poll")
      ]_vars

\* an image flow with a prediction id has stored the first element of an
\* output of two
C16_Witness ==
    /\ pc = "done"
    /\ kind = "image"
    /\ taskId # ""
    /\ queries >= 1
    /\ flowErr = NoErr
    /\ curImage.image = "L2"

\* C17: the prompt of every outbound submission holds no '<', no '>' and no
\* control character, and at most 2000 characters on the image route and
\* 1000 on the video route, whatever the prompt of the request
C17_OutboundPromptClean ==
    (fnDone /\ fnOut.call.called) =>
        /\ \A i \in 1..Len(fnOut.call.prompt) :
              fnOut.call.prompt[i] \notin {"<", ">", "\n", "^A"}
        /\ Len(fnOut.call.prompt) <= (IF fnIn.rt = "image" THEN 2000 ELSE 1000)

\* a prompt that starts with '<' and is longer than the slice length has been
\* sent on, cut to the slice length
C17_Witness ==
    /\ fnDone
    /\ fnOut.call.called
    /\ fnIn.req.prompt.chars[1] = "<"
    /\ Len(fnIn.req.prompt.chars) > PROMPT_MAX(fnIn.rt) + 1
    /\ Len(fnOut.call.prompt) = PROMPT_MAX(fnIn.rt)

\* C18: a request whose prompt is empty once sanitized is answered 400, and
\* no provider is sent an empty prompt
C18_EmptyPromptRejected ==
    /\ (fnDone /\ sanitizePrompt(fnIn.req.prompt.chars, PROMPT_MAX(fnIn.rt)) = <<>>) =>
          (fnOut.response.http = 400 /\ ~fnOut.call.called)
    /\ (fnDone /\ fnOut.call.called) => fnOut.call.prompt # <<>>

C20_DurationClamped ==
    (fnDone /\ fnIn.rt = "video" /\ fnOut.call.called /\ fnOut.call.provider # "zhipu") =>
        LET d == fnIn.req.duration
            lo == IF d > 1 THEN d ELSE 1
        IN  fnOut.call.duration = IF lo < 10 THEN lo ELSE 10

-----------------------------------------------------------------------------
(* Several flows of the page at a time (part_014).  The Generate button is  *)
(* disabled while isGenerating; the Retry button of a failed image is not,  *)
(* and generateImage itself tests only the prompt and the key.  Each flow   *)
(* runs generateImage / generateVideo as above; what its requests return is *)
(* chosen freely here.                                                      *)

\* the flows that may run at a time
FlowIds == {"f1", "f2"}

NotStarted == [pc |-> "idle", kind |-> "none", i |-> 0]

\* the other variables of the page flow keep their idle values
OneFlowIdle == UNCHANGED <<pc, kind, provider, retryI, pollI, taskId, curImage, curVideo,
                           flowErr, flowUrl, submits, queries, hist, onlyProcessing,
                           sawNoLocator>>

InitOverlap ==
    /\ IdleClient
    /\ IdleRoute
    /\ IdleFn
    /\ IdleHook
    /\ flows = [f \in FlowIds |-> NotStarted]
    /\ failedImage = FALSE

\* the finally of a flow: setGenerating(false); the catch of generateImage
\* leaves the image with the error flag
FlowEnds(f, failed) ==
    /\ flows' = [flows EXCEPT ![f] = [@ EXCEPT !.pc = "done"]]
    /\ isGenerating' = FALSE
    /\ failedImage' = (failedImage \/ (failed /\ flows[f].kind = "image"))

\* a click on Generate (enabled while ~isGenerating): handleGenerate
HandleGenerate(f) ==
    /\ flows[f].pc = "idle"
    /\ ~isGenerating
    /\ \E k \in {"image", "video"} :
          flows' = [flows EXCEPT ![f] = [pc |-> "submit", kind |-> k, i |-> 0]]
    /\ isGenerating' = TRUE
    /\ UNCHANGED failedImage
    /\ OneFlowIdle
    /\ UNCHANGED <<routeVars, fnVars, hookVars>>

\* a click on Retry of a failed image: retryImage, then generateImage
RetryImage(f) ==
    /\ flows[f].pc = "idle"
    /\ failedImage
    /\ flows' = [flows EXCEPT ![f] = [pc |-> "submit", kind |-> "image", i |-> 0]]
    /\ isGenerating' = TRUE
    /\ UNCHANGED failedImage
    /\ OneFlowIdle
    /\ UNCHANGED <<routeVars, fnVars, hookVars>>

\* api.generateImage / api.generateVideo returns or throws: the flow ends with
\* the image, goes on to poll, or ends in its catch
FlowSubmitted(f) ==
    /\ flows[f].pc = "submit"
    /\ \/ flows[f].kind = "image" /\ FlowEnds(f, FALSE)
       \/ /\ flows' = [flows EXCEPT ![f] = [@ EXCEPT !.pc = "poll"]]
          /\ UNCHANGED <<isGenerating, failedImage>>
       \/ FlowEnds(f, TRUE)
    /\ OneFlowIdle
    /\ UNCHANGED <<routeVars, fnVars, hookVars>>

\* one iteration of the poll loop of a flow: PROCESSING, the locator, or a
\* failure
FlowPolled(f) ==
    /\ flows[f].pc = "poll"
    /\ PollCondition(flows[f].i)
    /\ \/ /\ flows' = [flows EXCEPT ![f] = [@ EXCEPT !.i = @ + 1]]
          /\ UNCHANGED <<isGenerating, failedImage>>
       \/ FlowEnds(f, FALSE)
       \/ FlowEnds(f, TRUE)
    /\ OneFlowIdle
    /\ UNCHANGED <<routeVars, fnVars, hookVars>>

\* the poll loop of a flow ends without a result
FlowTimedOut(f) ==
    /\ flows[f].pc = "poll"
    /\ ~PollCondition(flows[f].i)
    /\ FlowEnds(f, TRUE)
    /\ OneFlowIdle
    /\ UNCHANGED <<routeVars, fnVars, hookVars>>

\* the callback of a flow has returned
FlowReturned(f) ==
    /\ flows[f].pc = "done"
    /\ flows' = [flows EXCEPT ![f] = NotStarted]
    /\ UNCHANGED <<isGenerating, failedImage>>
    /\ OneFlowIdle
    /\ UNCHANGED <<routeVars, fnVars, hookVars>>

NextOverlap ==
    \/ \E f \in FlowIds : HandleGenerate(f)
    \/ \E f \in FlowIds : RetryImage(f)
    \/ \E f \in FlowIds : FlowSubmitted(f)
    \/ \E f \in FlowIds : FlowPolled(f)
    \/ \E f \in FlowIds : FlowTimedOut(f)
    \/ \E f \in FlowIds : FlowReturned(f)

\* the flows of the page, several at a time
SpecOverlap == InitOverlap /\ [][NextOverlap]_vars

\* C21: a flow that is submitting or polling is reported as running: the end
\* of another flow does not take the in-progress indicator back
C21_RunningFlowReported ==
    (\E f \in FlowIds : flows[f].pc \in {"submit", "poll"}) => isGenerating

\* C22: the message of the error a caller of a submission gets holds no text
\* of the provider's error body: it is one of the fixed messages
C22_NoProviderText ==
    (fnDone /\ fnOut.call.called /\ fnIn.p.detail # "") =>
        apiFetch(fnOut.response).err.message # fnIn.p.detail

\* C23: the outbound request of a submission carries the credential in its
\* authorization header, and never in its URL
C23_KeyOnlyInHeader ==
    (fnDone /\ fnOut.call.called) =>
        /\ fnOut.call.urlKey = NoKey
        /\ fnOut.call.headerKey = fnIn.req.apiKey

\* a step in which a request is admitted / refused by the limiter
C24_Admitted == \E s \in Slots : ~inflight[s].busy /\ inflight'[s].busy
C24_Refused == last'.seen /\ last'.limited /\ last' # last

\* C24: while a caller has used up its window, no request of it is admitted
\* and no step changes its count or its resetTime until the clock has passed
\* resetTime; its first request after resetTime is admitted and starts a new
\* window with count 1
C24_AdmittedAgainAfterReset ==
    [][\A ip \in DOMAIN rateLimitMap :
          LimitReached(rateLimitMap[ip], route) =>
             /\ clock <= rateLimitMap[ip].resetTime =>
                   /\ ~C24_Admitted
                   /\ rateLimitMap' = rateLimitMap
             /\ (clock > rateLimitMap[ip].resetTime /\ (C24_Admitted \/ C24_Refused)) =>
                   /\ C24_Admitted
                   /\ rateLimitMap'[ip] = [count |-> 1, resetTime |-> clock + RATE_WINDOW]]_vars

\* a caller that was refused has been admitted again, in a new window
C24_Witness ==
    /\ last.seen /\ last.limited
    /\ \E ip \in DOMAIN rateLimitMap :
          /\ rateLimitMap[ip].count = 1
          /\ rateLimitMap[ip].resetTime = clock + RATE_WINDOW
          /\ clock > RATE_WINDOW
          /\ \E s \in Slots : inflight[s].busy /\ inflight[s].win = rateLimitMap[ip].resetTime

-----------------------------------------------------------------------------
(* lib/errors.ts (part_017) and lib/api-response.ts: the classification of  *)
(* a caught value                                                           *)

\* ErrorCode
ErrorCodes ==
    {"VALIDATION_ERROR", "API_ERROR", "NETWORK_ERROR", "TIMEOUT_ERROR",
     "RATE_LIMIT_ERROR", "INTERNAL_ERROR", "UNKNOWN_ERROR"}

\* new ApplicationError(message, code, statusCode, details); details = "" when
\* none are given, else the name of the original error
ApplicationError(message, code, statusCode, details) ==
    [cls |-> "ApplicationError", name |-> "ApplicationError", message |-> message,
     code |-> code, statusCode |-> statusCode, details |-> details]

\* a caught value that is not an ApplicationError: cls = "Error" for an Error,
\* "other" for a value that is not one (a string, null, an object)
Thrown(cls, name, message) ==
    [cls |-> cls, name |-> name, message |-> message,
     code |-> "", statusCode |-> 0, details |-> ""]

\* s.includes(t)
Includes(s, t) ==
    \E i \in 1..(Len(s) - Len(t) + 1) : SubSeq(s, i, i + Len(t) - 1) = t

\* createNetworkError answering 502
createNetworkErrorBadGateway(message) ==
    ApplicationError(message, "NETWORK_ERROR", 502, "")

createNetworkError(message) ==
    ApplicationError(message, "NETWORK_ERROR", 503, "")

createTimeoutError(message) ==
    ApplicationError(message, "TIMEOUT_ERROR", 504, "")

createInternalError(message, details) ==
    ApplicationError(message, "INTERNAL_ERROR", 500, details)

classifyError(error) ==
    IF error.cls = "ApplicationError" THEN error
    ELSE IF error.cls = "Error"
      THEN IF error.name = "AbortError" THEN createTimeoutError("Request timed out")
           ELSE IF Includes(error.message, "fetch") THEN createNetworkError(error.message)
           ELSE createInternalError(error.message, error.name)
    ELSE createInternalError("An unexpected error occurred", "")

getSafeErrorMessage(error) ==
    IF error.cls = "ApplicationError" THEN error.message
    ELSE IF error.cls = "Error"
      THEN IF Includes(error.message, "API key") \/ Includes(error.message, "secret")
             THEN "A configuration error occurred. Please contact support."
             ELSE error.message
    ELSE "An unexpected error occurred. Please try again."

\* errorResponse(error, defaultMessage): the status and the body it answers
errorResponse(error, defaultMessage) ==
    LET appError == IF error.cls = "ApplicationError" THEN error ELSE classifyError(error) IN
    [http |-> appError.statusCode, success |-> FALSE,
     error |-> Or(getSafeErrorMessage(error), defaultMessage), code |-> appError.code]

\* the caught values drawn
ErrorInputs ==
    {ApplicationError(m, c, h, "") :
        m \in {"", "boom", "Failed to fetch"}, c \in ErrorCodes,
        h \in {400, 429, 500, 502, 503, 504}}
    \cup {Thrown("Error", n, m) :
            n \in {"Error", "TypeError", "AbortError"},
            m \in {"", "boom", "Failed to fetch", "fetch failed", "Invalid API key",
                   "The operation was aborted"}}
    \cup {Thrown("other", "", w) : w \in {"Failed to fetch", "null", "[object Object]"}}

InitClassify ==
    /\ IdleClient
    /\ IdleRoute
    /\ IdleOverlap
    /\ IdleHook
    /\ \E e \in ErrorInputs : fnIn = [fn |-> "classify", error |-> e]
    /\ fnOut = <<>>
    /\ fnDone = FALSE

\* the value drawn is classified: classifyError(error), classifyError of what
\* that returned, and errorResponse(error)
ClassifyError ==
    /\ ~fnDone
    /\ fnOut' = <<classifyError(fnIn.error),
                  classifyError(classifyError(fnIn.error)),
                  errorResponse(fnIn.error, "An error occurred")>>
    /\ fnDone' = TRUE
    /\ UNCHANGED fnIn
    /\ UNCHANGED <<clientVars, routeVars, overlapVars, hookVars>>

NextClassify == ClassifyError

\* the classification of one caught value
SpecClassify == InitClassify /\ [][NextClassify]_vars

\* C25: classifyError of a value that is not an ApplicationError is an
\* ApplicationError with code and status TIMEOUT_ERROR/504, NETWORK_ERROR/503
\* or INTERNAL_ERROR/500; an ApplicationError is returned as it is, and
\* classifyError of the result is the result; errorResponse answers with the
\* code and the status of the classification
C25_ClosedTaxonomy ==
    fnDone =>
        /\ fnOut[1].cls = "ApplicationError"
        /\ fnIn.error.cls = "ApplicationError" => fnOut[1] = fnIn.error
        /\ fnIn.error.cls # "ApplicationError" =>
              <<fnOut[1].code, fnOut[1].statusCode>> \in
                  {<<"TIMEOUT_ERROR", 504>>, <<"NETWORK_ERROR", 503>>, <<"INTERNAL_ERROR", 500>>}
        /\ fnOut[2] = fnOut[1]
        /\ fnOut[3].code = fnOut[1].code
        /\ fnOut[3].http = fnOut[1].statusCode

\* a TypeError of a failed fetch has been classified, twice, as NETWORK_ERROR
C25_Witness ==
    /\ fnDone
    /\ fnIn.error.cls = "Error"
    /\ fnIn.error.name = "TypeError"
    /\ Includes(fnIn.error.message, "fetch")
    /\ fnOut[2].code = "NETWORK_ERROR"
    /\ fnOut[3].http = 503

-----------------------------------------------------------------------------
(* The useAIGenerator hook (use-ai-generator.ts): generateVideo and its     *)
(* poll loop, startPolling in the first version of the hook and             *)
(* pollVideoStatus in the second.  One action is one run of a callback up   *)
(* to its next await or timer.                                              *)

\* reading the body throws after pollCount++: data.success of a body that is
\* null, and in startPolling data.data.status of a body without data
ThrowsAfterCount(version, reply) ==
    reply = "null" \/ (version = "startPolling" /\ reply = "nodata")

\* Math.min((pollCount / maxPolls) * 100, 95), in thirds of a percent
HookProgress(n) ==
    LET v == (n * 300) \div maxPolls IN IF v < 285 THEN v ELSE 285

InitHook ==
    /\ IdleClient
    /\ IdleRoute
    /\ IdleFn
    /\ IdleOverlap
    /\ poller \in {"startPolling", "pollVideoStatus"}
    /\ hookPc = "idle"
    /\ pollCount = 0
    /\ isGeneratingVideo = FALSE
    /\ pollingTaskId = ""
    /\ pollingProgress = 0
    /\ generatedVideo = ""
    /\ hookQueries = 0

\* generateVideo up to its fetch
HookGenerateVideo ==
    /\ hookPc = "idle"
    /\ hookPc' = "submit"
    /\ isGeneratingVideo' = TRUE
    /\ pollingProgress' = 0
    /\ UNCHANGED <<poller, pollCount, pollingTaskId, generatedVideo, hookQueries>>
    /\ UNCHANGED <<clientVars, routeVars, fnVars, overlapVars>>

\* generateVideo from the answer of /api/generate-video on: the record and
\* the start of the loop, or the catch
HookSubmitted ==
    /\ hookPc = "submit"
    /\ \E created \in BOOLEAN :
          IF created
            THEN /\ generatedVideo' = "PROCESSING"
                 /\ pollingTaskId' = "t1"
                 /\ hookPc' = "poll"
                 /\ UNCHANGED isGeneratingVideo
            ELSE /\ isGeneratingVideo' = FALSE
                 /\ hookPc' = "done"
                 /\ UNCHANGED <<generatedVideo, pollingTaskId>>
    /\ UNCHANGED <<poller, pollCount, pollingProgress, hookQueries>>
    /\ UNCHANGED <<clientVars, routeVars, fnVars, overlapVars>>

\* one run of poll, at the start of the loop or when its timer fires.  The
\* status query gives: "throws" = fetch or response.json() rejects, before
\* pollCount++; a body that is null, {success: true} without data, {success:
\* false}; or a status result
HookPoll ==
    /\ hookPc = "poll"
    /\ hookQueries < MaxQueries
    /\ \E reply \in {"throws", "null", "nodata", "error", "processing", "nolocator",
                      "success", "fail"} :
          LET n == IF reply = "throws" THEN pollCount ELSE pollCount + 1 IN
          /\ hookQueries' = hookQueries + 1
          /\ pollCount' = n
          /\ IF reply = "throws"
               THEN /\ hookPc' = IF n < maxPolls THEN "poll" ELSE "done"
                    /\ UNCHANGED <<isGeneratingVideo, pollingTaskId, pollingProgress,
                                   generatedVideo>>
             ELSE IF ThrowsAfterCount(poller, reply)
               THEN /\ pollingProgress' = HookProgress(n)
                    /\ hookPc' = IF n < maxPolls THEN "poll" ELSE "done"
                    /\ UNCHANGED <<isGeneratingVideo, pollingTaskId, generatedVideo>>
             ELSE IF reply = "success"
               THEN /\ generatedVideo' = "SUCCESS"
                    /\ isGeneratingVideo' = FALSE
                    /\ pollingTaskId' = ""
                    /\ pollingProgress' = 300
                    /\ hookPc' = "done"
             ELSE IF reply = "fail"
               THEN /\ generatedVideo' = "FAIL"
                    /\ isGeneratingVideo' = FALSE
                    /\ pollingTaskId' = ""
                    /\ pollingProgress' = HookProgress(n)
                    /\ hookPc' = "done"
             ELSE IF n < maxPolls
               THEN /\ pollingProgress' = HookProgress(n)
                    /\ hookPc' = "poll"
                    /\ UNCHANGED <<isGeneratingVideo, pollingTaskId, generatedVideo>>
             ELSE /\ pollingProgress' = HookProgress(n)
                  /\ isGeneratingVideo' = FALSE
                  /\ pollingTaskId' = ""
                  /\ hookPc' = "done"
                  /\ UNCHANGED generatedVideo
    /\ UNCHANGED poller
    /\ UNCHANGED <<clientVars, routeVars, fnVars, overlapVars>>

NextHook ==
    \/ HookGenerateVideo
    \/ HookSubmitted
    \/ HookPoll

\* the video flow of the hook
SpecHook == InitHook /\ [][NextHook]_vars

\* C26: a status result that is terminal (SUCCESS with a locator, FAIL) ends
\* the poll loop of the flow, and so does the end of its attempts; once the
\* flow has ended no status query is issued for its task and its outcome
\* stays as it is
C26_TerminalIsFinal ==
    [][/\ pc = "poll" =>
             \A reply \in IF kind = "image" THEN ImageStatusReplies(taskId)
                                            ELSE VideoStatusReplies(taskId) :
                LET r == apiFetch(reply) IN
                (/\ PollStep(reply)
                 /\ r.ok
                 /\ \/ r.data.status = "FAIL"
                    \/ r.data.status = "SUCCESS" /\ r.data.url # "") => pc' = "done"
       /\ (pc = "poll" /\ pollI >= maxPolls) => (pc' = "done" /\ queries' = queries)
       /\ pc = "done" =>
             \/ pc' = "idle"
             \/ UNCHANGED <<queries, curImage, curVideo, flowErr, flowUrl>>]_vars

\* the same for the loop of the hook: once it has stopped, nothing of the
\* hook's state changes
C26_HookLoopIsFinal ==
    [][hookPc = "done" => UNCHANGED hookVars]_vars

\* a video flow has ended on a FAIL result after some PROCESSING results
C26_Witness ==
    /\ pc = "done"
    /\ kind = "video"
    /\ queries > 1
    /\ curVideo.status = "FAIL"
    /\ flowErr = PollFailError("video")

\* C27: the poll loop of the hook issues at most maxPolls status queries, and
\* when it has stopped isGeneratingVideo is false and pollingTaskId is null
C27_HookLoopBounded ==
    /\ hookQueries <= maxPolls
    /\ (hookPc = "done") => (~isGeneratingVideo /\ pollingTaskId = "")

\* C28: withRetry calls fn at most maxRetries times; after a call that
\* succeeds it calls no more; an ApiError with status 401 is thrown on at once;
\* the error of the call that is the maxRetries-th failure is the one thrown
C28_WithRetry ==
    [][/\ submits' <= maxRetries
       /\ \A reply \in ImageSubmitReplies :
             LET r == apiFetch(reply) IN
             (pc = "submit" /\ kind = "image" /\ SubmitImageStep(reply)) =>
                /\ r.ok => pc' # "submit"
                /\ (~r.ok /\ r.err.status = 401) => (pc' = "done" /\ flowErr' = r.err)
                /\ (~r.ok /\ submits' = maxRetries) => (pc' = "done" /\ flowErr' = r.err)]_vars

\* the image submission has failed maxRetries times, the last time not for
\* its key, and the flow has ended with an error
C28_Witness ==
    /\ pc = "done"
    /\ kind = "image"
    /\ submits = maxRetries
    /\ queries = 0
    /\ flowErr # NoErr
    /\ flowErr.status # 401

\* C29: when a flow has ended its record is terminal (an image: not loading,
\* and with an image or the error flag; a video: SUCCESS or FAIL) and
\* isGenerating is false
C29_RecordTerminal ==
    (pc = "done") =>
        /\ ~isGenerating
        /\ kind = "image" =>
              (~curImage.loading /\ (curImage.image # "" \/ curImage.error))
        /\ kind = "video" => curVideo.status \in {"SUCCESS", "FAIL"}

\* C30: a status query of a poll loop that fails (no answer, a body that is
\* not JSON, a status outside 2xx, success false) ends the flow at once with
\* the error of that query, the record marked as failed, whatever the number
\* of queries made so far; no status query follows
C30_FailedQueryEndsLoop ==
    [][/\ pc = "poll" =>
             \A reply \in IF kind = "image" THEN ImageStatusReplies(taskId)
                                            ELSE VideoStatusReplies(taskId) :
                (/\ PollStep(reply)
                 /\ \/ reply.net
                    \/ ~reply.json
                    \/ ~ResponseOk(reply.http)
                    \/ ~reply.success) =>
                   /\ pc' = "done"
                   /\ flowErr' # NoErr
                   /\ flowErr'.status = reply.http
                   /\ kind = "image" => (curImage'.error /\ ~curImage'.loading)
                   /\ kind = "video" => curVideo'.status = "FAIL"
       /\ (pc = "done" /\ flowErr # NoErr) => (pc' = "idle" \/ queries' = queries)]_vars

\* a video flow has ended on a status query without an answer, after some
\* queries and before the last attempt
C30_Witness ==
    /\ pc = "done"
    /\ kind = "video"
    /\ queries > 1
    /\ queries < maxPolls
    /\ flowErr.status = 0
    /\ curVideo.status = "FAIL"

====
